---- MODULE Spec2Model ----
(***************************************************************************)
(* Model of the relay listener index of play-core: QueriesEventMap (set,   *)
(* resolveListeners, _getGroup, _parseQuery) and the helpers it calls      *)
(* (ensureLookupValue, createListener, getTimestamp, mergeSorted,          *)
(* mergeAllSorted).                                                        *)
(*                                                                         *)
(* A JavaScript string is a sequence of one-character strings, so that     *)
(* trim, slice, toLowerCase and the regular expressions are computed.      *)
(***************************************************************************)
EXTENDS Integers, Sequences, FiniteSets, TLC

\* ------------------------------------------------------------------ bounds
MaxOps == 3        \* calls recorded in one behaviour of Spec
MaxClock == 1      \* largest value performance.now() takes in Spec
MaxGroups == 3     \* groups handed to mergeAllSorted in SpecMerge
MaxGroupLen == 2   \* callbacks of one group in SpecMerge
MaxTs == 2         \* largest timestamp drawn in SpecMerge

\* ------------------------------------------------------- program constants
IdLength == 10     \* the {10} of the marker pattern

\* --------------------------------------------------------------- universes
Listeners == {"f1", "f2", "f3"}     \* the callbacks that exist
Registrants == {"f1", "f2"}         \* the callbacks the calls of Spec are made with
NoListener == "none"
NoNode == "none"
Undefined == -1    \* a callback without the LISTENER_TIMESTAMP property

LowerSeq == <<"a","b","c","d","e","f","g","h","i","j","k","l","m",
              "n","o","p","q","r","s","t","u","v","w","x","y","z">>
UpperSeq == <<"A","B","C","D","E","F","G","H","I","J","K","L","M",
              "N","O","P","Q","R","S","T","U","V","W","X","Y","Z">>
Range(s) == {s[i] : i \in 1..Len(s)}
Lower == Range(LowerSeq)
Upper == Range(UpperSeq)
Digits == {"0","1","2","3","4","5","6","7","8","9"}
WordChars == Lower \cup Upper \cup Digits \cup {"_"}
WhiteSpace == {" ", "\t", "\n", "\r"}

\* ------------------------------------------------------- string operations
RECURSIVE TrimStart(_)
TrimStart(s) ==
  IF Len(s) > 0 /\ s[1] \in WhiteSpace THEN TrimStart(Tail(s)) ELSE s

RECURSIVE TrimEnd(_)
TrimEnd(s) ==
  IF Len(s) > 0 /\ s[Len(s)] \in WhiteSpace
  THEN TrimEnd(SubSeq(s, 1, Len(s) - 1)) ELSE s

\* String.prototype.trim
Trim(s) == TrimEnd(TrimStart(s))

\* String.prototype.slice(1)
Slice1(s) == SubSeq(s, 2, Len(s))

LowerChar(c) ==
  IF c \in Upper THEN LowerSeq[CHOOSE i \in 1..Len(UpperSeq) : UpperSeq[i] = c]
  ELSE c

\* String.prototype.toLowerCase
ToLowerCase(s) == [i \in 1..Len(s) |-> LowerChar(s[i])]

StartsWith(s, p) == Len(s) >= Len(p) /\ SubSeq(s, 1, Len(p)) = p

\* --------------------------------------------------- helpers.ts: the merge
\* getTimestamp(listener): the property, Undefined when it was never set
getTimestamp(ts, listener) == ts[listener]

\* compare(a, b) <= 0 for compare = getTimestamp(a) - getTimestamp(b); a
\* missing timestamp makes the difference NaN, and NaN <= 0 is false.
CompareLeqZero(ts, a, b) ==
  /\ getTimestamp(ts, a) # Undefined
  /\ getTimestamp(ts, b) # Undefined
  /\ getTimestamp(ts, a) - getTimestamp(ts, b) <= 0

RECURSIVE MergeLoop(_, _, _, _, _, _)
MergeLoop(a, b, i, j, result, ts) ==
  IF i <= Len(a) /\ j <= Len(b)
  THEN IF CompareLeqZero(ts, a[i], b[j])
       THEN MergeLoop(a, b, i + 1, j, Append(result, a[i]), ts)
       ELSE MergeLoop(a, b, i, j + 1, Append(result, b[j]), ts)
  ELSE result \o SubSeq(a, i, Len(a)) \o SubSeq(b, j, Len(b))

\* mutant of mergeSorted: the rest of the left operand is not appended
mergeSortedDropTail(a, b, ts) ==
  LET RECURSIVE Loop(_, _, _)
      Loop(i, j, result) ==
        IF i <= Len(a) /\ j <= Len(b)
        THEN IF CompareLeqZero(ts, a[i], b[j])
             THEN Loop(i + 1, j, Append(result, a[i]))
             ELSE Loop(i, j + 1, Append(result, b[j]))
        ELSE result \o SubSeq(b, j, Len(b))
  IN Loop(1, 1, <<>>)

mergeSorted(a, b, ts) == MergeLoop(a, b, 1, 1, <<>>, ts)

\* The fold of mergeAllSorted: result is null until the first non-empty group.
RECURSIVE MergeAllLoop(_, _, _, _)
MergeAllLoop(sortedGroups, k, result, ts) ==
  IF k > Len(sortedGroups) THEN result
  ELSE LET group == sortedGroups[k] IN
       IF Len(group) = 0 THEN MergeAllLoop(sortedGroups, k + 1, result, ts)
       ELSE MergeAllLoop(sortedGroups, k + 1,
              IF result.null THEN [null |-> FALSE, arr |-> group]
              ELSE [null |-> FALSE, arr |-> mergeSorted(result.arr, group, ts)],
              ts)

mergeAllSorted(sortedGroups, ts) ==
  LET result == MergeAllLoop(sortedGroups, 1, [null |-> TRUE, arr |-> <<>>], ts)
  IN IF result.null THEN <<>> ELSE result.arr

\* ------------------------------------------- selectors, patterns, _parseQuery
EventType == <<"c","l","i","c","k">>     \* the index's _eventType
MarkerPrefix == <<"d","a","t","a","-","r","e","l","a","y">>
RelayIdN1 == <<"a","b","c","1","2","3","x","y","z","0">>
UndefinedKey == <<"undefined">>          \* the value undefined used as a Map key

SelClassA == <<".", "a">>
SelIdX == <<"#", "x">>
SelTagDiv == <<"D", "i", "v">>
SelMarker == MarkerPrefix \o <<"-">> \o EventType \o <<"-">> \o RelayIdN1
SelComplex == <<"f","o","r","m"," ",".","a">>
SelBlank == <<" ", "\t">>
SelEmpty == <<>>
Selectors ==
  {SelClassA, SelIdX, SelTagDiv, SelMarker, SelComplex, SelBlank, SelEmpty}

Kinds == {"class", "id", "tag", "data", "complex"}

AllIn(s, from, set) == \A i \in from..Len(s) : s[i] \in set

\* /^\.[\w-]+$/
ClassPattern(q) ==
  Len(q) >= 2 /\ q[1] = "." /\ AllIn(q, 2, WordChars \cup {"-"})

\* /^#[\w-]+$/
IdPattern(q) ==
  Len(q) >= 2 /\ q[1] = "#" /\ AllIn(q, 2, WordChars \cup {"-"})

\* /^[a-zA-Z][a-zA-Z0-9-]*$/
TagPattern(q) ==
  /\ Len(q) >= 1
  /\ q[1] \in Lower \cup Upper
  /\ AllIn(q, 2, Lower \cup Upper \cup Digits \cup {"-"})

\* TargetIndentity.createPattern(eventType):
\* new RegExp(`^${PREFIX}-${eventType}-([a-z0-9]{10})$`)
DataPrefix(eventType) == MarkerPrefix \o <<"-">> \o eventType \o <<"-">>

DataPattern(eventType, q) ==
  /\ StartsWith(q, DataPrefix(eventType))
  /\ Len(q) = Len(DataPrefix(eventType)) + IdLength
  /\ AllIn(q, Len(DataPrefix(eventType)) + 1, Lower \cup Digits)

\* match[n] of dataPattern.exec(query): the pattern has one capturing group,
\* so match[1] is the id and every higher index is undefined.
DataMatch(eventType, q, n) ==
  IF n = 0 THEN q
  ELSE IF n = 1 THEN SubSeq(q, Len(DataPrefix(eventType)) + 1, Len(q))
  ELSE UndefinedKey

_parseQuery(query) ==
  IF ClassPattern(query) THEN [type |-> "class", value |-> Slice1(query)]
  ELSE IF IdPattern(query) THEN [type |-> "id", value |-> Slice1(query)]
  ELSE IF TagPattern(query) THEN [type |-> "tag", value |-> ToLowerCase(query)]
  ELSE IF DataPattern(EventType, query)
       THEN [type |-> "data", value |-> DataMatch(EventType, query, 2)]
  ELSE [type |-> "complex", value |-> query]

\* ------------------------------------------------------------------- nodes
\* A node as resolveListeners reads it: id, tagName, classList, and the relay
\* identity riding on it (TargetIndentity.is / TargetIndentity.get(.., "id")).
NodeIds == {"n1", "n2"}
Node(n) ==
  IF n = "n1"
  THEN [id |-> <<"x">>, tagName |-> <<"D","I","V">>,
        classList |-> << <<"a">>, <<"b">> >>,
        hasIdentity |-> TRUE, relayId |-> RelayIdN1]
  ELSE [id |-> <<>>, tagName |-> <<"S","P","A","N">>,
        classList |-> << <<"a">> >>,
        hasIdentity |-> FALSE, relayId |-> <<>>]

\* target.matches(selector): the DOM's answer, a table of the environment
MatchesTable == {<<"n1", SelComplex>>}
matches(n, selector) == <<n, selector>> \in MatchesTable

\* ------------------------------------------------------------------- state
VARIABLES
  queries,    \* _queries: kind -> slot; a slot is null, undefined or a Map
  ts,         \* listener -> its LISTENER_TIMESTAMP property, or Undefined
  now,        \* what performance.now() returns
  history,    \* the calls made so far, with their outcome
  groupsIn,   \* the groups last handed to mergeAllSorted
  merged,     \* the array last returned by mergeAllSorted
  classifier, \* one QueriesEventMap's patterns, and the _parseQuery calls made
  registry,   \* one element: its identity property, attributes, associations
  lru,        \* one LRUCache: its capacity and its Map, in insertion order
  extractor,  \* one FinalSelectorExtractor: its cache, its parser's cost model
  proxy,      \* EventStreamProxy._bindedTarget, and the calls on the proxies
  relay       \* one element as RelayId of index.ts sees it

vars == <<queries, ts, now, history, groupsIn, merged,
          classifier, registry, lru, extractor, proxy, relay>>

\* the components a specification does not exercise stay as constructed
others == <<classifier, registry, lru, extractor, proxy, relay>>

PatternKinds == {"class", "id", "tag", "data"}

ClassifierIdle ==
  [eventType |-> <<>>, input |-> <<>>,
   lastIndex |-> [k \in PatternKinds |-> 0], outputs |-> <<>>]

RegistryIdle ==
  [prop |-> [kind |-> "absent", obj |-> 0, id |-> <<>>, configurable |-> TRUE],
   events |-> {}, attrs |-> {}, writes |-> 0, objects |-> 0, calls |-> 0,
   log |-> <<>>]

\* new LRUCache<string, FinalSelectorDescriptor[]>(100)
ExtractorCapacity == 100

\* new FinalSelectorExtractor(new QuerySelectorParser()): an empty cache and
\* a cost model at 0; parses counts the calls of the parser, failures those
\* that threw, and matchCost is the cost the last successful parse reported
ExtractorIdle ==
  [capacity |-> ExtractorCapacity, cache |-> <<>>, totalCost |-> 0,
   matchCost |-> 0, parses |-> 0, failures |-> 0, calls |-> 0, log |-> <<>>]

\* private static _bindedTarget?: Element = undefined; no call made yet
NoTarget == "undefined"
ProxyIdle == [bindedTarget |-> NoTarget, log |-> <<>>]

\* an element that carries no __relayEventId and no marker attribute
RelayIdle ==
  [hasProperty |-> FALSE, relayEventId |-> <<>>, attrs |-> {}, log |-> <<>>]

LruKeys == {"A", "B", "C"}

\* lastUse is the number of the call that last set or hit the key, 0 if none;
\* hit is the set of keys a get has found
LruIdle ==
  [constructed |-> FALSE, capacity |-> 0, cache |-> <<>>,
   lastUse |-> [k \in LruKeys |-> 0], hit |-> {}, calls |-> 0, log |-> <<>>]

\* A Map is the sequence of its entries in insertion order; a Set of listeners
\* is the sequence of its members in insertion order.
NullSlot == [state |-> "null", entries |-> <<>>]
NewMap == [state |-> "map", entries |-> <<>>]

HasKey(entries, key) == \E i \in 1..Len(entries) : entries[i].key = key
IndexOfKey(entries, key) == CHOOSE i \in 1..Len(entries) : entries[i].key = key
MapGet(entries, key) == entries[IndexOfKey(entries, key)].listeners

\* ensureLookupValue on a plain object: only `=== undefined` installs the
\* default; the record after the call (the value returned is rec[key]).
ensureLookupValueOfRecord(rec, key) ==
  IF rec[key].state = "undefined" THEN [rec EXCEPT ![key] = NewMap] ELSE rec

\* ensureLookupValue on a Map: the entries after the call
ensureLookupValueOfMap(entries, key) ==
  IF ~HasKey(entries, key)
  THEN Append(entries, [key |-> key, listeners |-> <<>>])
  ELSE entries

\* mutant of setCall: no test of the trimmed query
setCallNoBlankTest(q, t, clock, query, listener) ==
  LET selector == _parseQuery(query)
      q1 == ensureLookupValueOfRecord(q, selector.type)
  IN IF q1[selector.type].state # "map"
     THEN [queries |-> q1, ts |-> t, raised |-> TRUE]
     ELSE [queries |-> q1, ts |-> [t EXCEPT ![listener] = clock],
           raised |-> FALSE]

\* QueriesEventMap.set(query, listener): the index and the timestamps after
\* the call, and whether it raised.  ensureLookupValue(null, ..) reads a
\* property of null, which raises a TypeError.
setCall(q, t, clock, query, listener) ==
  IF Len(Trim(query)) = 0
  THEN [queries |-> q, ts |-> t, raised |-> FALSE]
  ELSE
    LET selector == _parseQuery(query)
        q1 == ensureLookupValueOfRecord(q, selector.type)
        map == q1[selector.type]
    IN IF map.state # "map"
       THEN [queries |-> q1, ts |-> t, raised |-> TRUE]
       ELSE
         LET entries1 == ensureLookupValueOfMap(map.entries, selector.value)
             k == IndexOfKey(entries1, selector.value)
             listeners == entries1[k].listeners
             q2 == [q1 EXCEPT ![selector.type].entries = entries1]
         IN IF listener \in Range(listeners)
            THEN [queries |-> q2, ts |-> t, raised |-> FALSE]
            ELSE [queries |->
                    [q2 EXCEPT ![selector.type].entries[k].listeners =
                       Append(listeners, listener)],
                  ts |-> [t EXCEPT ![listener] = clock],
                  raised |-> FALSE]

\* mutant of _getGroup: `this._queries[kind].get(key)` without the `?.`
getGroupNoOptionalChain(q, kind, key) ==
  IF q[kind].state # "map" THEN [raised |-> TRUE, arr |-> <<>>]
  ELSE IF HasKey(q[kind].entries, key)
       THEN [raised |-> FALSE, arr |-> MapGet(q[kind].entries, key)]
       ELSE [raised |-> FALSE, arr |-> <<>>]

\* _getGroup(kind, key): [...(this._queries[kind]?.get(key) ?? [])]
_getGroup(q, kind, key) ==
  IF q[kind].state = "map" /\ HasKey(q[kind].entries, key)
  THEN [raised |-> FALSE, arr |-> MapGet(q[kind].entries, key)]
  ELSE [raised |-> FALSE, arr |-> <<>>]

RECURSIVE ClassGroups(_, _, _)
ClassGroups(q, classList, i) ==
  IF i > Len(classList) THEN <<>>
  ELSE <<_getGroup(q, "class", classList[i])>> \o ClassGroups(q, classList, i + 1)

RECURSIVE ComplexGroups(_, _, _)
ComplexGroups(entries, n, i) ==
  IF i > Len(entries) THEN <<>>
  ELSE (IF matches(n, entries[i].key)
        THEN <<[raised |-> FALSE, arr |-> entries[i].listeners]>> ELSE <<>>)
       \o ComplexGroups(entries, n, i + 1)

\* The candidate groups of resolveListeners, in the order they are pushed.
CandidateGroups(q, n) ==
  LET target == Node(n) IN
  (IF Len(target.id) > 0 THEN <<_getGroup(q, "id", target.id)>> ELSE <<>>)
  \o (IF Len(ToLowerCase(target.tagName)) > 0
      THEN <<_getGroup(q, "tag", ToLowerCase(target.tagName))>> ELSE <<>>)
  \o (IF Len(target.classList) > 0
      THEN ClassGroups(q, target.classList, 1) ELSE <<>>)
  \o (IF target.hasIdentity
      THEN <<_getGroup(q, "data", target.relayId)>> ELSE <<>>)
  \o (IF q["complex"].state = "map"
      THEN ComplexGroups(q["complex"].entries, n, 1) ELSE <<>>)

\* QueriesEventMap.resolveListeners(target)
resolveListeners(q, t, n) ==
  LET cand == CandidateGroups(q, n) IN
  IF \E i \in 1..Len(cand) : cand[i].raised
  THEN [raised |-> TRUE, groups |-> <<>>, result |-> <<>>]
  ELSE LET groups == [i \in 1..Len(cand) |-> cand[i].arr] IN
       [raised |-> FALSE, groups |-> groups,
        result |-> mergeAllSorted(groups, t)]

\* ---------------------------------------------------------- Spec: the index
Call(op, query, listener, node, raised, result) ==
  [op |-> op, query |-> query, listener |-> listener, node |-> node,
   at |-> now, raised |-> raised, result |-> result]

\* new QueriesEventMap("click"); no callback carries a timestamp
Init ==
  /\ queries = [k \in Kinds |-> NullSlot]
  /\ ts = [f \in Listeners |-> Undefined]
  /\ now = 0
  /\ history = <<>>
  /\ groupsIn = <<>>
  /\ merged = <<>>
  /\ classifier = ClassifierIdle
  /\ registry = RegistryIdle
  /\ lru = LruIdle
  /\ extractor = ExtractorIdle
  /\ proxy = ProxyIdle
  /\ relay = RelayIdle

set(query, listener) ==
  /\ Len(history) < MaxOps
  /\ LET r == setCall(queries, ts, now, query, listener) IN
       /\ queries' = r.queries
       /\ ts' = r.ts
       /\ history' = Append(history,
                       Call("set", query, listener, NoNode, r.raised, <<>>))
  /\ UNCHANGED <<now, groupsIn, merged>>
  /\ UNCHANGED others

resolve(n) ==
  /\ Len(history) < MaxOps
  /\ LET r == resolveListeners(queries, ts, n) IN
       /\ groupsIn' = r.groups
       /\ merged' = r.result
       /\ history' = Append(history,
                       Call("resolve", <<>>, NoListener, n, r.raised, r.result))
  /\ UNCHANGED <<queries, ts, now>>
  /\ UNCHANGED others

\* createListener(handler): stamps the handler with performance.now()
createListener(listener) ==
  /\ Len(history) < MaxOps
  /\ ts' = [ts EXCEPT ![listener] = now]
  /\ history' = Append(history,
                  Call("createListener", <<>>, listener, NoNode, FALSE, <<>>))
  /\ UNCHANGED <<queries, now, groupsIn, merged>>
  /\ UNCHANGED others

\* performance.now() is non-decreasing: time passes between calls
Tick ==
  /\ now < MaxClock
  /\ now' = now + 1
  /\ UNCHANGED <<queries, ts, history, groupsIn, merged>>
  /\ UNCHANGED others

Next ==
  \/ \E query \in Selectors, listener \in Registrants : set(query, listener)
  \/ \E n \in NodeIds : resolve(n)
  \/ \E listener \in Registrants : createListener(listener)
  \/ Tick

Spec == Init /\ [][Next]_vars

\* ------------------------------------- SpecMerge: mergeAllSorted on its own
SortedByTs(g, t) == \A i \in 1..(Len(g) - 1) : t[g[i]] <= t[g[i + 1]]

\* A group is the spread of a Set: no callback twice within one group (the
\* same callback may still be in several groups).
NoRepeat(g) == \A i, j \in 1..Len(g) : g[i] = g[j] => i = j

SortedGroups(t) ==
  {g \in UNION {[1..k -> Listeners] : k \in 0..MaxGroupLen} :
     NoRepeat(g) /\ SortedByTs(g, t)}

\* every callback stamped, every group sorted ascending by timestamp
InitMerge ==
  /\ queries = [k \in Kinds |-> NullSlot]
  /\ ts \in [Listeners -> 1..MaxTs]
  /\ now = 0
  /\ history = <<>>
  /\ groupsIn \in UNION {[1..k -> SortedGroups(ts)] : k \in 0..MaxGroups}
  /\ merged = <<>>
  /\ classifier = ClassifierIdle
  /\ registry = RegistryIdle
  /\ lru = LruIdle
  /\ extractor = ExtractorIdle
  /\ proxy = ProxyIdle
  /\ relay = RelayIdle

MergeAll ==
  /\ history = <<>>
  /\ merged' = mergeAllSorted(groupsIn, ts)
  /\ history' = <<Call("mergeAllSorted", <<>>, NoListener, NoNode, FALSE, <<>>)>>
  /\ UNCHANGED <<queries, ts, now, groupsIn>>
  /\ UNCHANGED others

NextMerge == MergeAll

SpecMerge == InitMerge /\ [][NextMerge]_vars

\* ----------------------------------------------------------------- claims
Count(s, x) == Cardinality({i \in 1..Len(s) : s[i] = x})

RECURSIVE Flatten(_)
Flatten(gs) == IF Len(gs) = 0 THEN <<>> ELSE Head(gs) \o Flatten(Tail(gs))

Merged == history # <<>> /\ history[1].op = "mergeAllSorted"

\* C1: for groups that are each sorted ascending by timestamp, mergeAllSorted
\* returns a permutation of their concatenation (same length, every callback
\* as often as in the groups) that is ascending by timestamp.
C1_MergeIsSortedPermutation ==
  Merged =>
    /\ Len(merged) = Len(Flatten(groupsIn))
    /\ \A f \in Listeners : Count(merged, f) = Count(Flatten(groupsIn), f)
    /\ SortedByTs(merged, ts)

\* a merge of three non-empty groups whose result is not their concatenation
C1_Witness ==
  /\ Merged
  /\ Len(groupsIn) >= 3
  /\ \A i \in 1..Len(groupsIn) : Len(groupsIn[i]) > 0
  /\ merged # Flatten(groupsIn)
  /\ \E i, j \in 1..Len(merged) : ts[merged[i]] # ts[merged[j]]

\* ---- the listener index (Spec)
NonBlank(query) == Len(Trim(query)) > 0
IsSetIn(h, i, listener) ==
  h[i].op = "set" /\ h[i].listener = listener /\ NonBlank(h[i].query)
IsSetOf(i, listener) == IsSetIn(history, i, listener)
LastCall == history[Len(history)]

\* the (kind, value) group as the index now holds it; empty when absent
GroupExistsIn(q, selector) ==
  /\ q[selector.type].state = "map"
  /\ HasKey(q[selector.type].entries, selector.value)
GroupIn(q, selector) ==
  IF GroupExistsIn(q, selector)
  THEN MapGet(q[selector.type].entries, selector.value) ELSE <<>>
GroupExists(selector) == GroupExistsIn(queries, selector)
GroupAt(selector) == GroupIn(queries, selector)

\* the node belongs to the (kind, value) group a query was classified into
NodeInGroup(n, query) ==
  LET selector == _parseQuery(query)
      target == Node(n)
  IN CASE selector.type = "id" -> target.id = selector.value
       [] selector.type = "tag" -> ToLowerCase(target.tagName) = selector.value
       [] selector.type = "class" -> selector.value \in Range(target.classList)
       [] selector.type = "data" ->
            target.hasIdentity /\ target.relayId = selector.value
       [] OTHER -> matches(n, query)

\* C2: a callback registered first under selector A and later under another
\* selector B carries the timestamp of the registration under A.
C2_TimestampAssignedOnce ==
  \A f \in Registrants : \A i, j \in 1..Len(history) :
    ( /\ i < j
      /\ IsSetOf(i, f) /\ IsSetOf(j, f)
      /\ _parseQuery(history[i].query) # _parseQuery(history[j].query)
      /\ \A k \in 1..Len(history) :
           /\ IsSetOf(k, f) => k >= i
           /\ ~(history[k].op = "createListener" /\ history[k].listener = f) )
    => ts[f] = history[i].at

\* C3: the first set on a fresh index, with a non-blank selector, raises
\* nothing, and afterwards the selector's group exists and holds exactly the
\* callback.
C3_FirstSetSucceeds ==
  (Len(history) = 1 /\ history[1].op = "set" /\ NonBlank(history[1].query))
  => /\ ~history[1].raised
     /\ GroupExists(_parseQuery(history[1].query))
     /\ GroupAt(_parseQuery(history[1].query)) = <<history[1].listener>>

\* C5: a second set of the same callback under the same selector is a no-op:
\* the group holds the callback exactly once, and neither the index nor the
\* callback's timestamp changes in the second call.
C5_SecondSetIsNoOp ==
  [][ \A f \in Registrants :
        ( /\ Len(history') = Len(history) + 1
          /\ IsSetIn(history', Len(history'), f)
          /\ \E i \in 1..Len(history) :
               IsSetOf(i, f) /\ history[i].query = history'[Len(history')].query )
        => /\ Count(GroupIn(queries',
                            _parseQuery(history'[Len(history')].query)), f) = 1
           /\ queries' = queries
           /\ ts'[f] = ts[f] ]_vars

\* C6: f1 registered once under one selector, then f2 registered once under
\* another, both groups being groups of the node: resolve(node) = <<f1, f2>>.
C6_RegistrationOrder ==
  \A f1, f2 \in Registrants : \A i, j \in 1..Len(history) :
    ( /\ f1 # f2 /\ i < j
      /\ Len(history) = j + 1
      /\ IsSetOf(i, f1) /\ IsSetOf(j, f2)
      /\ \A k \in 1..Len(history) : IsSetOf(k, f1) => k = i
      /\ \A k \in 1..Len(history) : IsSetOf(k, f2) => k = j
      /\ _parseQuery(history[i].query) # _parseQuery(history[j].query)
      /\ LastCall.op = "resolve"
      /\ NodeInGroup(LastCall.node, history[i].query)
      /\ NodeInGroup(LastCall.node, history[j].query) )
    => LastCall.result = <<f1, f2>>

C8_SnapshotThenVisible ==
  \A f \in Registrants : \A i, j \in 1..Len(history) :
    ( /\ i < j /\ Len(history) = j + 1
      /\ history[i].op = "resolve"
      /\ IsSetOf(j, f)
      /\ \A k \in 1..Len(history) : IsSetOf(k, f) => k = j
      /\ NodeInGroup(history[i].node, history[j].query)
      /\ LastCall.op = "resolve" /\ LastCall.node = history[i].node )
    => /\ f \notin Range(history[i].result)
       /\ f \in Range(LastCall.result)

\* C9: set with an empty or whitespace-only selector raises nothing and
\* changes neither the index (no group appears) nor any timestamp.
C9_BlankSelectorIsNoOp ==
  [][ ( /\ Len(history') = Len(history) + 1
        /\ history'[Len(history')].op = "set"
        /\ ~NonBlank(history'[Len(history')].query) )
      => /\ ~history'[Len(history')].raised
         /\ queries' = queries
         /\ ts' = ts ]_vars

\* a whitespace-only set made with a callback that already carries a timestamp
C9_Witness ==
  /\ Len(history) >= 2
  /\ LastCall.op = "set" /\ LastCall.query = SelBlank
  /\ ts[LastCall.listener] # Undefined
  /\ ~LastCall.raised

\* the groups resolveListeners looks up for a node are all empty or absent
NothingRegisteredFor(n) ==
  LET target == Node(n) IN
  /\ GroupAt([type |-> "id", value |-> target.id]) = <<>>
  /\ GroupAt([type |-> "tag", value |-> ToLowerCase(target.tagName)]) = <<>>
  /\ \A i \in 1..Len(target.classList) :
       GroupAt([type |-> "class", value |-> target.classList[i]]) = <<>>
  /\ GroupAt([type |-> "data", value |-> target.relayId]) = <<>>
  /\ \/ queries["complex"].state # "map"
     \/ \A i \in 1..Len(queries["complex"].entries) :
          \/ ~matches(n, queries["complex"].entries[i].key)
          \/ queries["complex"].entries[i].listeners = <<>>

\* C10: resolve of a node for which nothing is registered (no registration at
\* all, or only empty candidate groups) returns the empty sequence and raises
\* nothing.
C10_NoMatchResolvesEmpty ==
  (Len(history) > 0 /\ LastCall.op = "resolve"
     /\ NothingRegisteredFor(LastCall.node))
  => /\ ~LastCall.raised
     /\ LastCall.result = <<>>
     /\ merged = <<>>

\* resolve of the node with id, tag, classes and identity: every candidate
\* group was looked up, all were empty
C10_Witness ==
  /\ Len(history) > 0 /\ LastCall.op = "resolve" /\ LastCall.node = "n1"
  /\ Len(groupsIn) >= 5
  /\ \A i \in 1..Len(groupsIn) : groupsIn[i] = <<>>
  /\ LastCall.result = <<>>

\* ------------------------------------------------ identifiers and markers
IdBytes == 10                 \* new Uint8Array(10)
ByteSamples == {7, 200}       \* bytes crypto.getRandomValues may deliver
Base36 ==
  <<"0","1","2","3","4","5","6","7","8","9">> \o LowerSeq

\* Number.prototype.toString(36) of a byte 0..255: one digit below 36, two
\* digits from 36 up
ToString36(v) ==
  IF v < 36 THEN <<Base36[v + 1]>>
  ELSE <<Base36[(v \div 36) + 1], Base36[(v % 36) + 1]>>

RECURSIVE Join(_)
Join(parts) ==
  IF parts = <<>> THEN <<>> ELSE Head(parts) \o Join(Tail(parts))

\* what Math.random().toString(36) may read: "0", "0.i" (one half) and a
\* fraction of the usual length
MathRandomSamples ==
  { <<"0">>,
    <<"0",".","i">>,
    <<"0",".","4","f","z","y","o","8","2","m","v","y","r">> }

\* String.prototype.slice(2)
Slice2(s) == SubSeq(s, 3, Len(s))

\* getRandomId(): the draw is the environment's, either the ten bytes of
\* crypto.getRandomValues or, without window.crypto, the Math.random string
ByteDraws ==
  {[i \in 1..IdBytes |-> b] : b \in ByteSamples}
  \cup {[i \in 1..IdBytes |-> IF i % 2 = 1 THEN 7 ELSE 200]}

RandomDraws ==
  {[crypto |-> TRUE, bytes |-> b, text |-> <<>>] : b \in ByteDraws}
  \cup {[crypto |-> FALSE, bytes |-> <<>>, text |-> r] :
          r \in MathRandomSamples}

getRandomId(draw) ==
  IF ~draw.crypto THEN Slice2(draw.text)
  ELSE Join([i \in 1..Len(draw.bytes) |-> ToString36(draw.bytes[i])])

GeneratedIds == {getRandomId(draw) : draw \in RandomDraws}

\* the attribute name associateEvent builds:
\* `data-relay-${eventType}-${identity.id}`
MarkerAttr(eventType, id) == MarkerPrefix \o <<"-">> \o eventType \o <<"-">> \o id

\* ------------------------------ SpecClassify: _parseQuery, call after call
MaxLen == 3
MaxCalls == 2

EventTypes == {EventType, <<"k","e","y","u","p">>}
Alphabet == {".", "#", "a", "B", "1", "-", " "}

\* the selectors set hands to _parseQuery: never blank
ClassifyInputs ==
  {q \in UNION {[1..k -> Alphabet] : k \in 1..MaxLen} : Trim(q) # <<>>}
  \cup {MarkerAttr(e, id) : e \in EventTypes, id \in GeneratedIds}

\* the four patterns are written without flags
PatternGlobalFlagG == TRUE
PatternGlobal == FALSE

\* RegExp.prototype.test / exec of a pattern anchored at both ends: without
\* the g flag lastIndex is neither read nor written; with it the search starts
\* at lastIndex, a match leaves lastIndex at its end, a miss resets it to 0
RegExpExec(isMatch, len, lastIndex) ==
  IF ~PatternGlobal THEN [found |-> isMatch, lastIndex |-> lastIndex]
  ELSE IF lastIndex = 0 /\ isMatch THEN [found |-> TRUE, lastIndex |-> len]
  ELSE [found |-> FALSE, lastIndex |-> 0]

\* _parseQuery as the calls on the pattern objects it makes, in its order
parseQueryCall(eventType, re, query) ==
  LET n == Len(query)
      c == RegExpExec(ClassPattern(query), n, re["class"])
      i == RegExpExec(IdPattern(query), n, re["id"])
      t == RegExpExec(TagPattern(query), n, re["tag"])
      d == RegExpExec(DataPattern(eventType, query), n, re["data"])
      m == RegExpExec(DataPattern(eventType, query), n, d.lastIndex)
      re1 == [re EXCEPT !["class"] = c.lastIndex]
      re2 == [re1 EXCEPT !["id"] = i.lastIndex]
      re3 == [re2 EXCEPT !["tag"] = t.lastIndex]
  IN IF c.found
     THEN [result |-> [type |-> "class", value |-> Slice1(query)],
           lastIndex |-> re1]
     ELSE IF i.found
     THEN [result |-> [type |-> "id", value |-> Slice1(query)],
           lastIndex |-> re2]
     ELSE IF t.found
     THEN [result |-> [type |-> "tag", value |-> ToLowerCase(query)],
           lastIndex |-> re3]
     ELSE IF d.found
     THEN [result |-> [type |-> "data",
                       value |-> DataMatch(eventType, query, 2)],
           lastIndex |-> [re3 EXCEPT !["data"] = m.lastIndex]]
     ELSE [result |-> [type |-> "complex", value |-> query],
           lastIndex |-> [re3 EXCEPT !["data"] = d.lastIndex]]

InitClassify ==
  /\ queries = [k \in Kinds |-> NullSlot]
  /\ ts = [l \in Listeners |-> Undefined]
  /\ now = 0
  /\ history = <<>>
  /\ groupsIn = <<>>
  /\ merged = <<>>
  /\ classifier \in {[ClassifierIdle EXCEPT !.eventType = e, !.input = q] :
                       e \in EventTypes, q \in ClassifyInputs}
  /\ registry = RegistryIdle
  /\ lru = LruIdle
  /\ extractor = ExtractorIdle
  /\ proxy = ProxyIdle
  /\ relay = RelayIdle

Classify ==
  /\ Len(classifier.outputs) < MaxCalls
  /\ LET call == parseQueryCall(classifier.eventType, classifier.lastIndex,
                                classifier.input)
     IN classifier' = [classifier EXCEPT
                         !.lastIndex = call.lastIndex,
                         !.outputs = Append(@, call.result)]
  /\ UNCHANGED <<queries, ts, now, history, groupsIn, merged, registry, lru,
               extractor, proxy, relay>>

NextClassify == Classify

SpecClassify == InitClassify /\ [][NextClassify]_vars

\* ------------------------------------------------- claims on the classifier
\* the kind the ordered tests class, id, tag, marker assign, structural last
FirstMatchKind(eventType, q) ==
  IF Len(q) >= 2 /\ q[1] = "." /\ AllIn(q, 2, WordChars \cup {"-"})
    THEN "class"
  ELSE IF Len(q) >= 2 /\ q[1] = "#" /\ AllIn(q, 2, WordChars \cup {"-"})
    THEN "id"
  ELSE IF q[1] \in Lower \cup Upper
          /\ AllIn(q, 2, Lower \cup Upper \cup Digits \cup {"-"})
    THEN "tag"
  ELSE IF /\ StartsWith(q, MarkerAttr(eventType, <<>>))
          /\ Len(q) = Len(MarkerAttr(eventType, <<>>)) + IdLength
          /\ AllIn(q, Len(MarkerAttr(eventType, <<>>)) + 1, Lower \cup Digits)
    THEN "data"
  ELSE "complex"

\* the marker strings associateEvent can return for the map's event type
IsMarkerOf(q, id) ==
  id \in GeneratedIds /\ q = MarkerAttr(classifier.eventType, id)

\* C11: every call of _parseQuery on a non-blank selector returns exactly one
\* kind, the first of class, id, tag, marker whose test passes and structural
\* when none does, and every repeated call on the same selector returns the
\* same result as the first.
C11_OneKindByOrderedTests ==
  \A i \in 1..Len(classifier.outputs) :
    /\ classifier.outputs[i].type \in Kinds
    /\ classifier.outputs[i].type =
         FirstMatchKind(classifier.eventType, classifier.input)
    /\ classifier.outputs[i] = classifier.outputs[1]

\* a selector passing both the tag test and the marker test was classified
\* twice, and the earlier test won both times
C11_Witness ==
  /\ Len(classifier.outputs) >= 2
  /\ TagPattern(classifier.input)
  /\ DataPattern(classifier.eventType, classifier.input)
  /\ classifier.outputs[2].type = "tag"

\* C12: classifying the marker string associateEvent returns for the map's
\* event type yields kind data with the node's identity id as value.
C12_MarkerClassifiesAsData ==
  \A id \in GeneratedIds :
    IsMarkerOf(classifier.input, id) =>
      \A i \in 1..Len(classifier.outputs) :
        classifier.outputs[i] = [type |-> "data", value |-> id]

\* C13: the marker pattern matches the attribute name built from every id
\* getRandomId can produce and captures that id, and whatever it matches is
\* the prefix, the event type and one lower-case alphanumeric id.
C13_PatternAcceptsGeneratedMarkers ==
  Len(classifier.outputs) >= 1 =>
    /\ \A id \in GeneratedIds :
         IsMarkerOf(classifier.input, id) =>
           /\ DataPattern(classifier.eventType, classifier.input)
           /\ DataMatch(classifier.eventType, classifier.input, 1) = id
    /\ DataPattern(classifier.eventType, classifier.input) =>
         LET id == SubSeq(classifier.input,
                          Len(MarkerAttr(classifier.eventType, <<>>)) + 1,
                          Len(classifier.input))
         IN /\ classifier.input = MarkerAttr(classifier.eventType, id)
            /\ AllIn(id, 1, Lower \cup Digits)

\* ----------------------- SpecIdentity: TargetIdentity on one element
MaxRegCalls == 4

\* what the element carries under TargetIdentity.PROP before the first call:
\* nothing, a truthy value some other code stored there (a plain object), or
\* a falsy one (null, 0, "")
PropAbsent == [kind |-> "absent", obj |-> 0, id |-> <<>>, configurable |-> TRUE]
PropForeign ==
  [kind |-> "foreign", obj |-> 0, id |-> <<>>, configurable |-> TRUE]
PropFalsy == [kind |-> "falsy", obj |-> 0, id |-> <<>>, configurable |-> TRUE]

NoCall ==
  [op |-> "none", eventType |-> <<>>, raised |-> FALSE, result |-> <<>>,
   wrote |-> FALSE, created |-> FALSE]

\* TargetIdentity.is(element)
isIdentityPropOnly(reg) == reg.prop.kind # "absent"
isIdentity(reg) ==
  /\ reg.prop.kind # "absent"              \* PROP in element
  /\ reg.prop.kind = "identity"            \* instanceof EventTargetIdentityValue

\* TargetIdentity.get(element): the value under the property, as define and
\* associateEvent go on to use it
get(reg) == [kind |-> reg.prop.kind, obj |-> reg.prop.obj, id |-> reg.prop.id]

\* TargetIdentity.define(element): [reg, result, raised, created]
defineCallNoGuard(reg, draw) ==
  IF reg.prop.kind = "absent" \/ reg.prop.configurable
  THEN LET value == [kind |-> "identity", obj |-> reg.objects + 1,
                     id |-> getRandomId(draw)]
       IN [reg |-> [reg EXCEPT
                      !.prop = [kind |-> "identity", obj |-> value.obj,
                                id |-> value.id,
                                configurable |-> reg.prop.kind # "absent"],
                      !.objects = @ + 1],
           result |-> value, raised |-> FALSE, created |-> TRUE]
  ELSE [reg |-> [reg EXCEPT !.objects = @ + 1],
        result |-> <<>>, raised |-> TRUE, created |-> FALSE]

defineCall(reg, draw) ==
  IF reg.prop.kind \in {"absent", "falsy"}         \* if (!identity)
  THEN LET value == [kind |-> "identity", obj |-> reg.objects + 1,
                     id |-> getRandomId(draw)]
       IN \* Object.defineProperty: a new property is not configurable, an
          \* existing one keeps the configurable it had
          [reg |-> [reg EXCEPT
                      !.prop = [kind |-> "identity", obj |-> value.obj,
                                id |-> value.id,
                                configurable |-> reg.prop.kind # "absent"],
                      !.objects = @ + 1],
           result |-> value, raised |-> FALSE, created |-> TRUE]
  ELSE [reg |-> reg, result |-> get(reg), raised |-> FALSE, created |-> FALSE]

\* TargetIdentity.associateEvent(element, eventType):
\* [reg, result, raised, wrote, created]
associateEventCallNoGuard(reg, eventType, draw) ==
  LET def == defineCall(reg, draw)
      identity == def.result
      attr == MarkerAttr(eventType, identity.id)
  IN IF identity.kind # "identity"
     THEN [reg |-> def.reg, result |-> <<>>, raised |-> TRUE,
           wrote |-> FALSE, created |-> def.created]
     ELSE [reg |-> [def.reg EXCEPT !.attrs = @ \cup {attr},
                                   !.writes = @ + 1,
                                   !.events = @ \cup {eventType}],
           result |-> attr, raised |-> FALSE, wrote |-> TRUE,
           created |-> def.created]

associateEventCall(reg, eventType, draw) ==
  LET def == defineCall(reg, draw)
      identity == def.result
      attr == MarkerAttr(eventType, identity.id)
  IN IF identity.kind # "identity"
     THEN \* identity.hasEvent is not a function
          [reg |-> def.reg, result |-> <<>>, raised |-> TRUE,
           wrote |-> FALSE, created |-> def.created]
     ELSE IF eventType \notin def.reg.events
     THEN [reg |-> [def.reg EXCEPT !.attrs = @ \cup {attr},
                                   !.writes = @ + 1,
                                   !.events = @ \cup {eventType}],
           result |-> attr, raised |-> FALSE, wrote |-> TRUE,
           created |-> def.created]
     ELSE [reg |-> def.reg, result |-> attr, raised |-> FALSE,
           wrote |-> FALSE, created |-> def.created]

InitIdentity ==
  /\ queries = [k \in Kinds |-> NullSlot]
  /\ ts = [l \in Listeners |-> Undefined]
  /\ now = 0
  /\ history = <<>>
  /\ groupsIn = <<>>
  /\ merged = <<>>
  /\ classifier = ClassifierIdle
  /\ registry \in {[RegistryIdle EXCEPT !.prop = p, !.log = <<NoCall>>] :
                     p \in {PropAbsent, PropForeign, PropFalsy}}
  /\ lru = LruIdle
  /\ extractor = ExtractorIdle
  /\ proxy = ProxyIdle
  /\ relay = RelayIdle

\* the record of the call just made replaces the one before it
Called(reg, call) == [reg EXCEPT !.log = <<call>>, !.calls = @ + 1]

IdentityFrame ==
  UNCHANGED <<queries, ts, now, history, groupsIn, merged, classifier, lru,
              extractor, proxy, relay>>

is ==
  /\ registry.calls < MaxRegCalls
  /\ registry' = Called(registry,
       [NoCall EXCEPT !.op = "is", !.result = isIdentity(registry)])
  /\ IdentityFrame

define(draw) ==
  /\ registry.calls < MaxRegCalls
  /\ LET call == defineCall(registry, draw)
     IN registry' = Called(call.reg,
          [NoCall EXCEPT !.op = "define", !.result = call.result,
                         !.raised = call.raised, !.created = call.created])
  /\ IdentityFrame

associateEvent(eventType, draw) ==
  /\ registry.calls < MaxRegCalls
  /\ LET call == associateEventCall(registry, eventType, draw)
     IN registry' = Called(call.reg,
          [NoCall EXCEPT !.op = "associateEvent", !.eventType = eventType,
                         !.result = call.result, !.raised = call.raised,
                         !.wrote = call.wrote, !.created = call.created])
  /\ IdentityFrame

\* the methods of the EventTargetIdentityValue that define or get returned
setEvent(eventType) ==
  /\ registry.calls < MaxRegCalls
  /\ registry.prop.kind = "identity"
  /\ registry' = Called([registry EXCEPT !.events = @ \cup {eventType}],
       [NoCall EXCEPT !.op = "setEvent", !.eventType = eventType])
  /\ IdentityFrame

removeEvent(eventType) ==
  /\ registry.calls < MaxRegCalls
  /\ registry.prop.kind = "identity"
  /\ registry' = Called([registry EXCEPT !.events = @ \ {eventType}],
       [NoCall EXCEPT !.op = "removeEvent", !.eventType = eventType,
                      !.result = eventType \in registry.events])
  /\ IdentityFrame

clearEvents ==
  /\ registry.calls < MaxRegCalls
  /\ registry.prop.kind = "identity"
  /\ registry' = Called([registry EXCEPT !.events = {}],
       [NoCall EXCEPT !.op = "clearEvents"])
  /\ IdentityFrame

NextIdentity ==
  \/ is
  \/ \E draw \in RandomDraws : define(draw)
  \/ \E eventType \in EventTypes, draw \in RandomDraws :
       associateEvent(eventType, draw)
  \/ \E eventType \in EventTypes : setEvent(eventType)
  \/ \E eventType \in EventTypes : removeEvent(eventType)
  \/ clearEvents

SpecIdentity == InitIdentity /\ [][NextIdentity]_vars

\* ------------------------------------------ claims on the identity registry
LastOf(reg) == IF reg.log = <<>> THEN NoCall ELSE reg.log[1]

\* the step is a call of op on the element
IsCallOf(op) ==
  registry'.calls = registry.calls + 1 /\ LastOf(registry').op = op

\* C14: define is idempotent and the identity is immutable: a call on an
\* element without a value under the property attaches an identity, a later
\* call returns the very object already there, with the same id, and creates
\* nothing, and no define, associateEvent, setEvent, removeEvent or
\* clearEvents changes or removes an identity once attached.
C14_DefineIdempotentIdentityKept ==
  [][ /\ registry.prop.kind = "identity" => registry'.prop = registry.prop
      /\ IsCallOf("define") =>
           /\ ~LastOf(registry').raised
           /\ LastOf(registry').result = get(registry')
           /\ registry.prop.kind \in {"absent", "falsy"} =>
                registry'.prop.kind = "identity"
           /\ registry.prop.kind \notin {"absent", "falsy"} =>
                /\ LastOf(registry').result = get(registry)
                /\ ~LastOf(registry').created
                /\ registry'.objects = registry.objects
    ]_vars

\* define was called on an element that already had its identity, after
\* associations were made and removed, and returned the identity of before
C14_Witness ==
  /\ LastOf(registry).op = "define"
  /\ ~LastOf(registry).created
  /\ registry.calls >= 3
  /\ registry.objects = 1
  /\ registry.prop.kind = "identity"
  /\ LastOf(registry).result.obj = registry.prop.obj
  /\ registry.attrs # {} /\ registry.events = {}

\* C15: is(element) answers true exactly when the value under the identity
\* property is an EventTargetIdentityValue, that is an object define created;
\* a foreign value under the property is no identity.
C15_IsIffRegistryIdentity ==
  LastOf(registry).op = "is" =>
    LastOf(registry).result =
      (/\ registry.prop.kind # "absent"
       /\ registry.prop.obj \in 1..registry.objects)

C15_Witness ==
  /\ LastOf(registry).op = "is"
  /\ registry.prop.kind = "foreign"
  /\ LastOf(registry).result = FALSE

\* C16: define and associateEvent never raise, whatever the element carries
\* under the identity property, and after they return is(element) is true.
C16_AlwaysSucceeds ==
  LastOf(registry).op \in {"define", "associateEvent"} =>
    ~LastOf(registry).raised /\ isIdentity(registry)

\* C17: associateEvent is idempotent: the call that associates the event type
\* writes the marker attribute once and leaves it on the element, and the
\* next call with the same element and event type returns the same attribute
\* name, performs no setAttribute and leaves the attributes as they were.
C17_AssociateEventIdempotent ==
  [][ IsCallOf("associateEvent") =>
        /\ LastOf(registry').wrote =>
             /\ ~LastOf(registry').raised
             /\ LastOf(registry').result \in registry'.attrs
             /\ registry'.writes = registry.writes + 1
        /\ ( /\ LastOf(registry).op = "associateEvent"
             /\ LastOf(registry).eventType = LastOf(registry').eventType
             /\ LastOf(registry).wrote ) =>
             /\ ~LastOf(registry').raised
             /\ LastOf(registry').result = LastOf(registry).result
             /\ ~LastOf(registry').wrote
             /\ registry'.writes = registry.writes
             /\ registry'.attrs = registry.attrs
             /\ LastOf(registry').result \in registry'.attrs
    ]_vars

\* two calls for the same event type were made: one write, attribute present
C17_Witness ==
  /\ registry.calls = 2
  /\ registry.writes = 1
  /\ LastOf(registry).op = "associateEvent"
  /\ ~LastOf(registry).wrote /\ ~LastOf(registry).raised
  /\ registry.events = {LastOf(registry).eventType}
  /\ registry.attrs = {LastOf(registry).result}

\* C18: after any sequence of define, associateEvent, setEvent, removeEvent
\* and clearEvents the element carries the marker attribute of an event type
\* exactly when the association set contains that event type.
C18_MarkerIffAssociated ==
  registry.prop.kind = "identity" =>
    \A eventType \in EventTypes :
      MarkerAttr(eventType, registry.prop.id) \in registry.attrs
        <=> eventType \in registry.events

\* ------------------------------------------- SpecLRU: one LRUCache
MaxCap == 2
MaxLruCalls == 5

Capacities == (0 - 1)..MaxCap
\* a value is a list of descriptors, one at least; undefined, which no value
\* is, reads as the empty list
LruValue == <<"descriptors">>
LruValueB == <<"descriptors", "more">>
LruValues == {LruValue, LruValueB}
LruUndefined == <<>>

\* present and full: how a set found the cache (its key there, no room left)
NoLruCall ==
  [op |-> "none", key |-> "", capacity |-> 0, raised |-> FALSE,
   result |-> LruUndefined, value |-> LruUndefined, present |-> FALSE,
   full |-> FALSE]

CacheKeys(cache) == {cache[i].key : i \in 1..Len(cache)}

\* Map.prototype.delete: the other entries keep their order
MapDelete(cache, key) == SelectSeq(cache, LAMBDA e : e.key # key)

\* Map.prototype.set: a new key goes last, a present key keeps its place
MapSet(cache, key, value) ==
  IF key \in CacheKeys(cache)
  THEN [i \in 1..Len(cache) |->
          IF cache[i].key = key THEN [key |-> key, value |-> value]
          ELSE cache[i]]
  ELSE Append(cache, [key |-> key, value |-> value])

\* Map.prototype.get
MapGetValue(cache, key) ==
  IF key \in CacheKeys(cache)
  THEN (CHOOSE e \in Range(cache) : e.key = key).value
  ELSE LruUndefined

\* new LRUCache(capacity): does the constructor throw
constructorThrowsBelowZero(capacity) == capacity < 0
constructorThrows(capacity) == capacity <= 0

isFull(l) == Len(l.cache) >= l.capacity
hasAnyEntry(l, key) == Len(l.cache) > 0
has(l, key) == key \in CacheKeys(l.cache)

\* LRUCache.set: the cache it leaves
lruSetCallFullFirst(l, key, value) ==
  LET kept == IF isFull(l) THEN MapDelete(l.cache, l.cache[1].key)
              ELSE IF has(l, key) THEN MapDelete(l.cache, key)
              ELSE l.cache
  IN MapSet(kept, key, value)

lruSetCall(l, key, value) ==
  LET kept == IF has(l, key) THEN MapDelete(l.cache, key)
              ELSE IF isFull(l) THEN MapDelete(l.cache, l.cache[1].key)
              ELSE l.cache
  IN MapSet(kept, key, value)

\* LRUCache.get: [cache, result]
lruGetCallNoPromote(l, key) ==
  [cache |-> l.cache, result |-> MapGetValue(l.cache, key)]

lruGetCall(l, key) ==
  LET value == MapGetValue(l.cache, key)
  IN IF value # LruUndefined
     THEN [cache |-> MapSet(MapDelete(l.cache, key), key, value),
           result |-> value]
     ELSE [cache |-> l.cache, result |-> value]

InitLRU ==
  /\ queries = [k \in Kinds |-> NullSlot]
  /\ ts = [l \in Listeners |-> Undefined]
  /\ now = 0
  /\ history = <<>>
  /\ groupsIn = <<>>
  /\ merged = <<>>
  /\ classifier = ClassifierIdle
  /\ registry = RegistryIdle
  /\ lru = [LruIdle EXCEPT !.log = <<NoLruCall>>]
  /\ extractor = ExtractorIdle
  /\ proxy = ProxyIdle
  /\ relay = RelayIdle

LruFrame ==
  UNCHANGED <<queries, ts, now, history, groupsIn, merged, classifier,
              registry, extractor, proxy, relay>>

LruCalled(l, call) == [l EXCEPT !.log = <<call>>, !.calls = @ + 1]

newLRUCache(capacity) ==
  /\ ~lru.constructed
  /\ lru.calls < MaxLruCalls
  /\ lru' = LruCalled(
       IF constructorThrows(capacity) THEN lru
       ELSE [lru EXCEPT !.constructed = TRUE, !.capacity = capacity],
       [NoLruCall EXCEPT !.op = "new", !.capacity = capacity,
                         !.raised = constructorThrows(capacity)])
  /\ LruFrame

lruSet(key, value) ==
  /\ lru.constructed
  /\ lru.calls < MaxLruCalls
  /\ lru' = LruCalled(
       [lru EXCEPT !.cache = lruSetCall(lru, key, value),
                   !.lastUse[key] = lru.calls + 1],
       [NoLruCall EXCEPT !.op = "set", !.key = key, !.value = value,
                         !.present = has(lru, key), !.full = isFull(lru)])
  /\ LruFrame

lruGet(key) ==
  /\ lru.constructed
  /\ lru.calls < MaxLruCalls
  /\ LET call == lruGetCall(lru, key)
     IN lru' = LruCalled(
          [lru EXCEPT !.cache = call.cache,
                      !.lastUse[key] =
                         IF has(lru, key) THEN lru.calls + 1 ELSE @,
                      !.hit = IF has(lru, key) THEN @ \cup {key} ELSE @],
          [NoLruCall EXCEPT !.op = "get", !.key = key,
                            !.result = call.result])
  /\ LruFrame

lruDelete(key) ==
  /\ lru.constructed
  /\ lru.calls < MaxLruCalls
  /\ lru' = LruCalled([lru EXCEPT !.cache = MapDelete(@, key)],
                      [NoLruCall EXCEPT !.op = "delete", !.key = key])
  /\ LruFrame

lruClear ==
  /\ lru.constructed
  /\ lru.calls < MaxLruCalls
  /\ lru' = LruCalled([lru EXCEPT !.cache = <<>>],
                      [NoLruCall EXCEPT !.op = "clear"])
  /\ LruFrame

NextLRU ==
  \/ \E capacity \in Capacities : newLRUCache(capacity)
  \/ \E key \in LruKeys, value \in LruValues : lruSet(key, value)
  \/ \E key \in LruKeys : lruGet(key)
  \/ \E key \in LruKeys : lruDelete(key)
  \/ lruClear

SpecLRU == InitLRU /\ [][NextLRU]_vars

\* --------------------------------------------------- claims on the LRUCache
LruLast(l) == IF l.log = <<>> THEN NoLruCall ELSE l.log[1]

IsLruCall(op) == lru'.calls = lru.calls + 1 /\ LruLast(lru').op = op

\* the present key whose last set or hit is the oldest
LeastRecentlyUsed(l) ==
  CHOOSE k \in CacheKeys(l.cache) :
    \A other \in CacheKeys(l.cache) : l.lastUse[k] <= l.lastUse[other]

\* C19: the cache evicts by access order: a set of a new key into a full
\* cache removes exactly the key whose last access (a get that hit, or a set)
\* is the oldest, every other set removes nothing, and a get removes nothing;
\* so with capacity 2, set A, set B, get A, set C leaves A and C.
C19_EvictsLeastRecentlyAccessed ==
  [][ /\ IsLruCall("set") =>
           CacheKeys(lru'.cache) =
             IF LruLast(lru').key \notin CacheKeys(lru.cache)
                /\ Len(lru.cache) >= lru.capacity
             THEN (CacheKeys(lru.cache) \ {LeastRecentlyUsed(lru)})
                    \cup {LruLast(lru').key}
             ELSE CacheKeys(lru.cache) \cup {LruLast(lru').key}
      /\ IsLruCall("get") =>
           /\ CacheKeys(lru'.cache) = CacheKeys(lru.cache)
           /\ LruLast(lru').result = MapGetValue(lru.cache, LruLast(lru').key)
    ]_vars

\* new LRUCache(2), set A, set B, get A, set C: B was evicted, A was kept
C19_Witness ==
  /\ lru.capacity = 2
  /\ lru.calls = 5
  /\ lru.lastUse = [k \in LruKeys |->
                      IF k = "A" THEN 4 ELSE IF k = "B" THEN 3 ELSE 5]
  /\ lru.hit = {"A"}
  /\ LruLast(lru).op = "set" /\ LruLast(lru).key = "C"
  /\ CacheKeys(lru.cache) = {"A", "C"}

\* C20: constructing an LRUCache with a capacity of 0 or less raises, so no
\* cache with a non-positive capacity is ever in use.
C20_NonPositiveCapacityThrows ==
  /\ lru.constructed => lru.capacity > 0
  /\ (LruLast(lru).op = "new" /\ LruLast(lru).capacity <= 0) =>
       LruLast(lru).raised /\ ~lru.constructed

C20_Witness ==
  /\ LruLast(lru).op = "new"
  /\ LruLast(lru).capacity = 0
  /\ LruLast(lru).raised
  /\ ~lru.constructed

\* ------------------------------------ QuerySelectorParser and its cost model
\* An AstRule is [items, nestedRule]; nestedRule is <<>> or <<rule>>. An item
\* is [type, name, operator], the name a string like every string here and
\* operator telling whether an attribute item carries one.
Item(type, name) == [type |-> type, name |-> name, operator |-> FALSE]
AttrOp(name) == [type |-> "Attribute", name |-> name, operator |-> TRUE]
Rule(items, nestedRule) == [items |-> items, nestedRule |-> nestedRule]

\* structural patterns, as handed to the parser (trimmed)
PatPseudo == <<":", "x">>
PatTagClass == <<"a", ".", "b">>
PatTagAttr == <<"a", "[", "b", "]">>
PatNested == <<"a", " ", ".", "b">>
PatDeep == <<"a", ">", "b", " ", "c", ":", "x">>
PatList == <<"a", ",", "b", "[", "c", "=", "d", "]", ",", "*", ".", "e">>
PatIdElement == <<"#", "i", ":", ":", "e">>
PatBroken == <<"a", "[">>

\* the patterns :p00 .. :p99, one pseudo-class each
DigitSeq == <<"0","1","2","3","4","5","6","7","8","9">>
Filler(k) ==
  <<":", "p", DigitSeq[((k \div 10) % 10) + 1], DigitSeq[(k % 10) + 1]>>
Fillers == {Filler(k) : k \in 1..ExtractorCapacity}

ParserError == [error |-> TRUE, rules |-> <<>>]
Ast(rules) == [error |-> FALSE, rules |-> rules]

\* createParser()(query) of css-selector-parser: the rules it reads in each
\* pattern, or the error it throws
CssSelectorParser(query) ==
  IF query = PatPseudo
    THEN Ast(<<Rule(<<Item("PseudoClass", <<"x">>)>>, <<>>)>>)
  ELSE IF query = PatTagClass
    THEN Ast(<<Rule(<<Item("TagName", <<"a">>), Item("ClassName", <<"b">>)>>, <<>>)>>)
  ELSE IF query = PatTagAttr
    THEN Ast(<<Rule(<<Item("TagName", <<"a">>), Item("Attribute", <<"b">>)>>, <<>>)>>)
  ELSE IF query = PatNested
    THEN Ast(<<Rule(<<Item("TagName", <<"a">>)>>,
                    <<Rule(<<Item("ClassName", <<"b">>)>>, <<>>)>>)>>)
  ELSE IF query = PatDeep
    THEN Ast(<<Rule(<<Item("TagName", <<"a">>)>>,
                <<Rule(<<Item("TagName", <<"b">>)>>,
                   <<Rule(<<Item("TagName", <<"c">>), Item("PseudoClass", <<"x">>)>>,
                          <<>>)>>)>>)>>)
  ELSE IF query = PatList
    THEN Ast(<<Rule(<<Item("TagName", <<"a">>)>>, <<>>),
               Rule(<<Item("TagName", <<"b">>), AttrOp(<<"c">>)>>, <<>>),
               Rule(<<Item("WildcardTag", <<"*">>), Item("ClassName", <<"e">>)>>,
                    <<>>)>>)
  ELSE IF query = PatIdElement
    THEN Ast(<<Rule(<<Item("Id", <<"i">>), Item("PseudoElement", <<"e">>)>>,
                    <<>>)>>)
  ELSE IF query \in Fillers
    THEN Ast(<<Rule(<<Item("PseudoClass", Tail(query))>>, <<>>)>>)
  ELSE ParserError

\* DefaultCostModel, in thousandths
TagCost == 1000
IdCost == 200
ClassNameCost == 700
AttributeOperatorCost == 3500
AttributeCost == 2500
PseudoClassCost == 4000
PseudoElementCost == 1500
NestingCost == 1200

\* Math.log2(length + 1) in thousandths, rounded down
Log2Thousandths(n) ==
  IF n = 3 THEN 1584 ELSE IF n = 4 THEN 2000 ELSE IF n = 5 THEN 2321
  ELSE IF n = 6 THEN 2584 ELSE IF n = 7 THEN 2807 ELSE 3000

\* DefaultCostModel.reset(): what _totalCost is set to
reset(totalCost) == 0

\* DefaultCostModel.finalize(length): the cost; _totalCost goes back to 0
finalize(totalCost, length) ==
  totalCost + (IF length > 1 THEN Log2Thousandths(length + 1) ELSE 0)

NoDescriptor(raw) ==
  [raw |-> raw, tag |-> <<>>, id |-> <<>>, classes |-> <<>>, attrs |-> <<>>,
   pseudoClasses |-> <<>>, pseudoElements |-> <<>>]

\* _applyRuleItem with one weight for every kind of item
applyRuleItemOneWeight(acc, item) ==
  [descriptor |-> acc.descriptor, totalCost |-> acc.totalCost + TagCost]

\* _applyRuleItem: [descriptor, totalCost] after one item
_applyRuleItem(acc, item) ==
  IF item.type = "TagName"
    THEN [descriptor |-> [acc.descriptor EXCEPT !.tag = <<item.name>>],
          totalCost |-> acc.totalCost + TagCost]
  ELSE IF item.type = "Id"
    THEN [descriptor |-> [acc.descriptor EXCEPT !.id = <<item.name>>],
          totalCost |-> acc.totalCost + IdCost]
  ELSE IF item.type = "ClassName"
    THEN [descriptor |-> [acc.descriptor EXCEPT
                            !.classes = Append(@, item.name)],
          totalCost |-> acc.totalCost + ClassNameCost]
  ELSE IF item.type = "Attribute"
    THEN [descriptor |-> [acc.descriptor EXCEPT
                            !.attrs = Append(@, item.name)],
          totalCost |-> acc.totalCost
             + (IF item.operator THEN AttributeOperatorCost
                ELSE AttributeCost)]
  ELSE IF item.type = "PseudoClass"
    THEN [descriptor |-> [acc.descriptor EXCEPT
                            !.pseudoClasses = Append(@, item.name)],
          totalCost |-> acc.totalCost + PseudoClassCost]
  ELSE IF item.type = "PseudoElement"
    THEN [descriptor |-> [acc.descriptor EXCEPT
                            !.pseudoElements = Append(@, item.name)],
          totalCost |-> acc.totalCost + PseudoElementCost]
  ELSE acc

\* _buildDescriptor(raw, rule): the items of the rule, applied in order
RECURSIVE ApplyItems(_, _, _)
ApplyItems(acc, items, i) ==
  IF i > Len(items) THEN acc
  ELSE ApplyItems(_applyRuleItem(acc, items[i]), items, i + 1)

_buildDescriptor(raw, rule, totalCost) ==
  ApplyItems([descriptor |-> NoDescriptor(raw), totalCost |-> totalCost],
             rule.items, 1)

\* _getDeepestRule(rule): [rule, depth] at the end of the nestedRule chain
RECURSIVE DeepestFrom(_, _)
DeepestFrom(current, depth) ==
  IF current.nestedRule # <<>>
  THEN DeepestFrom(current.nestedRule[1], depth + 1)
  ELSE [rule |-> current, depth |-> depth]

getDeepestRuleNoDescent(rule) == [rule |-> rule, depth |-> 0]
_getDeepestRule(rule) == DeepestFrom(rule, 0)

\* _extractFinalRules(rules): the deepest rules, and the nesting cost added
RECURSIVE NestingTotal(_, _)
NestingTotal(rules, i) ==
  IF i > Len(rules) THEN 0
  ELSE NestingCost * _getDeepestRule(rules[i]).depth
       + NestingTotal(rules, i + 1)

_extractFinalRules(rules) ==
  [i \in 1..Len(rules) |-> _getDeepestRule(rules[i]).rule]

\* finalRules.map(rule => _buildDescriptor(query, rule)), cost carried along
RECURSIVE BuildAll(_, _, _, _)
BuildAll(query, finalRules, i, acc) ==
  IF i > Len(finalRules) THEN acc
  ELSE LET built == _buildDescriptor(query, finalRules[i], acc.totalCost)
       IN BuildAll(query, finalRules, i + 1,
                   [finalSelectors |->
                      Append(acc.finalSelectors, built.descriptor),
                    totalCost |-> built.totalCost])

\* parse with a cost model that is never cleared: no reset() on entry, and a
\* finalize that leaves _totalCost as it is
parseAccumulating(totalCost, query) ==
  LET ast == CssSelectorParser(query)
  IN IF ast.error
     THEN [error |-> TRUE, finalSelectors |-> <<>>, matchCost |-> 0,
           totalCost |-> totalCost]
     ELSE LET finalRules == _extractFinalRules(ast.rules)
              nested == totalCost + NestingTotal(ast.rules, 1)
              built == BuildAll(query, finalRules, 1,
                         [finalSelectors |-> <<>>, totalCost |-> nested])
          IN [error |-> FALSE,
              finalSelectors |-> built.finalSelectors,
              matchCost |-> finalize(built.totalCost, Len(ast.rules)),
              totalCost |-> built.totalCost]

\* QuerySelectorParser.parse(query): [error, finalSelectors, matchCost,
\* totalCost], totalCost being what the cost model is left at. The parser
\* throws before any cost is added, so a failed parse leaves what reset() left
parse(totalCost, query) ==
  LET ast == CssSelectorParser(query)
  IN IF ast.error
     THEN [error |-> TRUE, finalSelectors |-> <<>>, matchCost |-> 0,
           totalCost |-> reset(totalCost)]
     ELSE LET finalRules == _extractFinalRules(ast.rules)
              nested == reset(totalCost) + NestingTotal(ast.rules, 1)
              built == BuildAll(query, finalRules, 1,
                         [finalSelectors |-> <<>>, totalCost |-> nested])
          IN [error |-> FALSE,
              finalSelectors |-> built.finalSelectors,
              matchCost |-> finalize(built.totalCost, Len(ast.rules)),
              totalCost |-> 0]

\* ------------------------------- SpecExtract: one FinalSelectorExtractor
MaxExtractCalls == 3
WarmUpBatch == 25

AdmissionThreshold == 4000      \* result.matchCost >= 4, in thousandths

admitsAlways(matchCost) == TRUE
admitsFromThree(matchCost) == matchCost >= 3000
admits(matchCost) == matchCost >= AdmissionThreshold

\* if (queryTrimmed.length === 0) return []
isEmptyQueryNever(queryTrimmed) == FALSE
isEmptyQuery(queryTrimmed) == Len(queryTrimmed) = 0

\* if (error) throw error
throwsOnErrorNever(error) == FALSE
throwsOnError(error) == error

\* if (this._cache.has(queryTrimmed)) return this._cache.get(queryTrimmed)!
cacheHitNoPromote(e, queryTrimmed) == lruGetCallNoPromote(e, queryTrimmed)
cacheHit(e, queryTrimmed) == lruGetCall(e, queryTrimmed)

\* hit and evicted are <<>> or hold the key found, the key removed
Outcome(e, result, raised, parsed, hit, evicted) ==
  [extractor |-> e, result |-> result, raised |-> raised, parsed |-> parsed,
   hit |-> hit, evicted |-> evicted]

\* FinalSelectorExtractor.extract(query)
extractCall(e, query) ==
  LET queryTrimmed == Trim(query)
  IN IF isEmptyQuery(queryTrimmed)
     THEN Outcome(e, <<>>, FALSE, FALSE, <<>>, <<>>)
     ELSE IF has(e, queryTrimmed)
     THEN LET hit == cacheHit(e, queryTrimmed)
          IN Outcome([e EXCEPT !.cache = hit.cache],
                     hit.result, FALSE, FALSE, <<queryTrimmed>>, <<>>)
     ELSE LET parsed == parse(e.totalCost, queryTrimmed)
              after == [e EXCEPT !.totalCost = parsed.totalCost,
                                 !.matchCost =
                                    IF parsed.error THEN @
                                    ELSE parsed.matchCost,
                                 !.parses = @ + 1,
                                 !.failures =
                                    IF parsed.error THEN @ + 1 ELSE @]
          IN IF throwsOnError(parsed.error)
             THEN Outcome(after, <<>>, TRUE, TRUE, <<>>, <<>>)
             ELSE IF ~parsed.error /\ admits(parsed.matchCost)
             THEN LET cache == lruSetCall(e, queryTrimmed,
                                          parsed.finalSelectors)
                      evicted == IF isFull(e) THEN <<e.cache[1].key>>
                                 ELSE <<>>
                  IN Outcome([after EXCEPT !.cache = cache],
                             parsed.finalSelectors, FALSE, TRUE, <<>>,
                             evicted)
             ELSE Outcome(after, parsed.finalSelectors, FALSE, TRUE, <<>>,
                          <<>>)

\* extract called on :p(lo), ... :p(hi) in turn
RECURSIVE ExtractFillers(_, _, _)
ExtractFillers(e, lo, hi) ==
  IF lo > hi THEN e
  ELSE LET call == extractCall(e, Filler(lo))
       IN IF call.raised THEN call.extractor     \* the client stops there
          ELSE ExtractFillers(call.extractor, lo + 1, hi)

Padded(q) == <<" ">> \o q \o <<" ", "\t">>

ExtractInputs ==
  {PatPseudo, PatTagClass, PatTagAttr, PatNested, PatDeep, PatList,
   PatIdElement, PatBroken, Padded(PatPseudo), Padded(PatBroken), Filler(1),
   SelBlank, SelEmpty}

InvalidateInputs == {PatPseudo, Padded(PatPseudo), PatDeep, Filler(1)}

NoExtractCall ==
  [op |-> "none", query |-> <<>>, result |-> <<>>, raised |-> FALSE,
   parsed |-> FALSE, hit |-> <<>>, evicted |-> <<>>, hitBefore |-> <<>>]

\* the record of the call just made replaces the one before it; hitBefore
\* keeps the key that call had found in the cache
ExtractCalled(e, call) ==
  [e EXCEPT !.log = <<[call EXCEPT !.hitBefore =
                          IF e.log = <<>> THEN <<>> ELSE e.log[1].hit]>>,
            !.calls = @ + 1]

InitExtract ==
  /\ queries = [k \in Kinds |-> NullSlot]
  /\ ts = [l \in Listeners |-> Undefined]
  /\ now = 0
  /\ history = <<>>
  /\ groupsIn = <<>>
  /\ merged = <<>>
  /\ classifier = ClassifierIdle
  /\ registry = RegistryIdle
  /\ lru = LruIdle
  /\ extractor = [ExtractorIdle EXCEPT !.log = <<NoExtractCall>>]
  /\ proxy = ProxyIdle
  /\ relay = RelayIdle

ExtractFrame ==
  UNCHANGED <<queries, ts, now, history, groupsIn, merged, classifier,
              registry, lru, proxy, relay>>

extract(query) ==
  /\ extractor.calls < MaxExtractCalls
  /\ LET call == extractCall(extractor, query)
     IN extractor' = ExtractCalled(call.extractor,
          [NoExtractCall EXCEPT
             !.op = "extract", !.query = query, !.result = call.result,
             !.raised = call.raised, !.parsed = call.parsed,
             !.hit = call.hit, !.evicted = call.evicted])
  /\ ExtractFrame

\* a client filling a new extractor: the next WarmUpBatch of the patterns
\* :p01, :p02, ... extracted one after the other, until the cache is full
warmUp ==
  /\ extractor.calls = 0
  /\ Len(extractor.cache) < extractor.capacity
  /\ LET lo == Len(extractor.cache) + 1
         hi == IF lo + WarmUpBatch - 1 > extractor.capacity
               THEN extractor.capacity ELSE lo + WarmUpBatch - 1
     IN extractor' =
          [ExtractFillers(extractor, lo, hi) EXCEPT
             !.log = <<[NoExtractCall EXCEPT !.op = "warmUp"]>>]
  /\ ExtractFrame

\* FinalSelectorExtractor.invalidate(query): the key is the query as given
invalidate(query) ==
  /\ extractor.calls < MaxExtractCalls
  /\ extractor' = ExtractCalled(
       [extractor EXCEPT !.cache = MapDelete(@, query)],
       [NoExtractCall EXCEPT !.op = "invalidate", !.query = query])
  /\ ExtractFrame

clearCache ==
  /\ extractor.calls < MaxExtractCalls
  /\ extractor' = ExtractCalled(
       [extractor EXCEPT !.cache = <<>>],
       [NoExtractCall EXCEPT !.op = "clearCache"])
  /\ ExtractFrame

NextExtract ==
  \/ \E query \in ExtractInputs : extract(query)
  \/ warmUp
  \/ \E query \in InvalidateInputs : invalidate(query)
  \/ clearCache

SpecExtract == InitExtract /\ [][NextExtract]_vars

\* --------------------------------------------------- claims on the extractor
ExLast(e) == IF e.log = <<>> THEN NoExtractCall ELSE e.log[1]

\* the step is a call of extract
IsExtract ==
  extractor'.calls = extractor.calls + 1 /\ ExLast(extractor').op = "extract"

\* the key of that call, and what the parser makes of it
ExKey == Trim(ExLast(extractor').query)
Parses(q) == ~CssSelectorParser(q).error
CostOf(q) == parse(0, q).matchCost

\* C21: a pattern that parses with a cost below the admission threshold is
\* not in the cache after extract and the next extract of it invokes the
\* parser again; a pattern whose cost meets or exceeds the threshold is in
\* the cache after extract and the next extract of it invokes no parser.
C21_AdmissionByThreshold ==
  [][ (IsExtract /\ ExKey # <<>> /\ Parses(ExKey)) =>
        /\ CostOf(ExKey) < AdmissionThreshold =>
             /\ ExKey \notin CacheKeys(extractor'.cache)
             /\ ExLast(extractor').parsed
             /\ extractor'.parses = extractor.parses + 1
        /\ CostOf(ExKey) >= AdmissionThreshold =>
             /\ ExKey \in CacheKeys(extractor'.cache)
             /\ ( /\ ExLast(extractor).op = "extract"
                  /\ Trim(ExLast(extractor).query) = ExKey ) =>
                  /\ ~ExLast(extractor').parsed
                  /\ extractor'.parses = extractor.parses
    ]_vars

\* a pattern whose cost is exactly the threshold was extracted twice and
\* parsed once
C21_Witness ==
  /\ extractor.calls = 2
  /\ extractor.parses = 1
  /\ ExLast(extractor).op = "extract"
  /\ ~ExLast(extractor).parsed
  /\ Trim(ExLast(extractor).query) = PatPseudo
  /\ CostOf(PatPseudo) = AdmissionThreshold
  /\ ExLast(extractor).result = parse(0, PatPseudo).finalSelectors

\* C22: every entry of the cache belongs to a pattern whose cost is strictly
\* greater than the admission threshold.
C22_CachedCostAboveThreshold ==
  \A i \in 1..Len(extractor.cache) :
    CostOf(extractor.cache[i].key) > AdmissionThreshold

\* C22, amended: every entry of the cache belongs to a pattern that parses
\* and whose cost is greater than or equal to the admission threshold.
C22_CachedCostAtLeastThreshold ==
  \A i \in 1..Len(extractor.cache) :
    /\ Parses(extractor.cache[i].key)
    /\ CostOf(extractor.cache[i].key) >= AdmissionThreshold

\* the cache holds a pattern above the threshold and one exactly at it
C22_Witness ==
  /\ PatDeep \in CacheKeys(extractor.cache)
  /\ PatPseudo \in CacheKeys(extractor.cache)
  /\ CostOf(PatDeep) > AdmissionThreshold
  /\ CostOf(PatPseudo) = AdmissionThreshold

\* C23: on a cache hit extract returns the cached descriptors, invokes no
\* parser and makes the entry the most recent one; when the next call admits
\* a new pattern into the full cache, the entry evicted is not the one hit.
C23_HitRefreshesRecency ==
  [][ IsExtract =>
        /\ (ExKey # <<>> /\ ExKey \in CacheKeys(extractor.cache)) =>
             /\ ~ExLast(extractor').raised
             /\ ~ExLast(extractor').parsed
             /\ extractor'.parses = extractor.parses
             /\ ExLast(extractor').result =
                  MapGetValue(extractor.cache, ExKey)
             /\ CacheKeys(extractor'.cache) = CacheKeys(extractor.cache)
             /\ extractor'.cache[Len(extractor'.cache)].key = ExKey
        /\ (ExLast(extractor').evicted # <<>> /\ ExLast(extractor).hit # <<>>)
             => /\ ExLast(extractor').evicted # ExLast(extractor).hit
                /\ ExLast(extractor).hit[1] \in CacheKeys(extractor'.cache)
    ]_vars

\* the oldest entry of a full cache was hit, then a new pattern was admitted:
\* another entry was evicted
C23_Witness ==
  /\ ExLast(extractor).op = "extract"
  /\ ExLast(extractor).hitBefore = <<Filler(1)>>
  /\ ExLast(extractor).evicted = <<Filler(2)>>
  /\ Len(extractor.cache) = ExtractorCapacity
  /\ Filler(1) \in CacheKeys(extractor.cache)

\* C24: when the parser reports an error, extract raises it and leaves the
\* cache, entries and order, as it was.
C24_ParseErrorPropagates ==
  [][ (IsExtract /\ ExKey # <<>> /\ ~Parses(ExKey)) =>
        /\ ExLast(extractor').raised
        /\ ExLast(extractor').parsed
        /\ extractor'.cache = extractor.cache
    ]_vars

C24_Witness ==
  /\ ExLast(extractor).op = "extract"
  /\ Trim(ExLast(extractor).query) = PatBroken
  /\ ExLast(extractor).raised
  /\ extractor.cache # <<>>

\* C25: extract of an input that is empty after trimming returns the empty
\* list, invokes no parser and leaves the cache, entries and order, as it was.
C25_BlankInputReturnsEmpty ==
  [][ (IsExtract /\ ExKey = <<>>) =>
        /\ ~ExLast(extractor').raised
        /\ ExLast(extractor').result = <<>>
        /\ ~ExLast(extractor').parsed
        /\ ExLast(extractor').hit = <<>>
        /\ extractor'.parses = extractor.parses
        /\ extractor'.cache = extractor.cache
    ]_vars

C25_Witness ==
  /\ ExLast(extractor).op = "extract"
  /\ ExLast(extractor).query = SelBlank
  /\ ExLast(extractor).result = <<>>
  /\ ~ExLast(extractor).raised
  /\ extractor.cache # <<>>

\* the item lists along the nestedRule chain of a rule, the top rule first
RECURSIVE Chain(_)
Chain(rule) ==
  <<rule.items>> \o
    (IF rule.nestedRule = <<>> THEN <<>> ELSE Chain(rule.nestedRule[1]))

\* the names of the items of one type, in item order
Names(items, type) ==
  LET of == SelectSeq(items, LAMBDA item : item.type = type)
  IN [j \in 1..Len(of) |-> of[j].name]

\* the last name of the type, if any
LastName(items, type) ==
  IF Names(items, type) = <<>> THEN <<>>
  ELSE <<Names(items, type)[Len(Names(items, type))]>>

\* C26: for a pattern that parses, the descriptors returned are one per
\* top-level rule, in rule order, and each holds the tag, id, classes,
\* attributes and pseudo names of the items of the last rule of its
\* nestedRule chain and of no other rule.
C26_OneDescriptorPerRuleFromDeepest ==
  ( /\ ExLast(extractor).op = "extract"
    /\ ExLast(extractor).parsed
    /\ ~ExLast(extractor).raised ) =>
    LET key == Trim(ExLast(extractor).query)
        rules == CssSelectorParser(key).rules
        result == ExLast(extractor).result
    IN /\ Len(result) = Len(rules)
       /\ \A i \in 1..Len(rules) :
            LET items == Chain(rules[i])[Len(Chain(rules[i]))]
            IN /\ result[i].raw = key
               /\ result[i].tag = LastName(items, "TagName")
               /\ result[i].id = LastName(items, "Id")
               /\ result[i].classes = Names(items, "ClassName")
               /\ result[i].attrs = Names(items, "Attribute")
               /\ result[i].pseudoClasses = Names(items, "PseudoClass")
               /\ result[i].pseudoElements = Names(items, "PseudoElement")

\* a > b c:x was parsed: one descriptor, tag c and pseudo-class x, nothing
\* of a or b
C26_Witness ==
  /\ ExLast(extractor).op = "extract"
  /\ ExLast(extractor).parsed
  /\ ExLast(extractor).query = PatDeep
  /\ ExLast(extractor).result =
       <<[NoDescriptor(PatDeep) EXCEPT !.tag = << <<"c">> >>,
                                       !.pseudoClasses = << <<"x">> >>]>>

\* ---- candidate order and the marker path (Spec, SpecClassify)
\* the position of a selector's group among the candidate groups resolve
\* pushes for a node: id, tag, one per class of classList, marker, structural
RECURSIVE IndexIn(_, _, _)
IndexIn(list, value, i) ==
  IF i > Len(list) THEN 0
  ELSE IF list[i] = value THEN i ELSE IndexIn(list, value, i + 1)

GroupRank(n, query) ==
  LET selector == _parseQuery(query)
      classList == Node(n).classList
  IN CASE selector.type = "id" -> 1
       [] selector.type = "tag" -> 2
       [] selector.type = "class" -> 2 + IndexIn(classList, selector.value, 1)
       [] selector.type = "data" -> 3 + Len(classList)
       [] OTHER -> 4 + Len(classList)

PatternsAccepting(eventType, query) ==
  {kind \in {"class", "id", "tag", "data"} :
     CASE kind = "class" -> ClassPattern(query)
       [] kind = "id" -> IdPattern(query)
       [] kind = "tag" -> TagPattern(query)
       [] OTHER -> DataPattern(eventType, query)}

C28_FastPatternsDisjoint ==
  Len(classifier.outputs) >= 1 =>
    Cardinality(PatternsAccepting(classifier.eventType, classifier.input)) <= 1

\* C29: a callback registered under the marker selector of a node with an
\* identity (the string associateEvent returns for it) is among the callbacks
\* resolve returns for that node.
C29_MarkerRegistrationResolves ==
  \A f \in Registrants : \A i \in 1..Len(history) :
    ( /\ IsSetOf(i, f)
      /\ history[i].query = MarkerAttr(EventType, Node("n1").relayId)
      /\ i < Len(history)
      /\ LastCall.op = "resolve" /\ LastCall.node = "n1"
      /\ Node("n1").hasIdentity )
    => f \in Range(LastCall.result)

\* C31: the cache is transparent: after any calls of extract, invalidate and
\* clearCache, extract(p) returns what parsing the trimmed p returns, and
\* raises when that parse fails; a blank p, which reaches neither the cache
\* nor the parser, returns the empty list.
C31_CacheIsTransparent ==
  [][ IsExtract =>
        LET direct == parse(0, ExKey)
            call == ExLast(extractor')
        IN IF Len(ExKey) = 0
           THEN ~call.raised /\ call.result = <<>>
           ELSE /\ call.raised = direct.error
                /\ ~direct.error => call.result = direct.finalSelectors
    ]_vars

\* a cached pattern extracted again after other entries came and went: the
\* answer is the one the parser gives
C31_Witness ==
  /\ ExLast(extractor).op = "extract"
  /\ ExLast(extractor).hit = <<Trim(ExLast(extractor).query)>>
  /\ ~ExLast(extractor).parsed
  /\ Len(extractor.cache) >= 2
  /\ ExLast(extractor).result =
       parse(0, Trim(ExLast(extractor).query)).finalSelectors
  /\ ExLast(extractor).result # <<>>

\* C32: after invalidate(p), the next extract(p) invokes the parser again,
\* for every non-blank p, with or without surrounding whitespace.
C32_InvalidateForcesReparse ==
  [][ ( /\ IsExtract
        /\ ExLast(extractor).op = "invalidate"
        /\ ExLast(extractor).query = ExLast(extractor').query
        /\ Len(ExKey) > 0 )
      => ExLast(extractor').parsed
    ]_vars

\* the same, for the patterns that carry no surrounding whitespace
C32_TrimmedInvalidateForcesReparse ==
  [][ ( /\ IsExtract
        /\ ExLast(extractor).op = "invalidate"
        /\ ExLast(extractor).query = ExLast(extractor').query
        /\ ExLast(extractor').query = ExKey
        /\ Len(ExKey) > 0 )
      => ExLast(extractor').parsed
    ]_vars

\* ---- the LRUCache again (SpecLRU)
\* the entries of a cache other than the one under key, in their order
Others(cache, key) == SelectSeq(cache, LAMBDA e : e.key # key)

\* C33: an LRUCache of capacity c never holds more than c entries, and a set
\* on a key already present replaces its value and makes it the most recent
\* entry while every other entry stays, in its place and with its value,
\* also when the cache is full.
C33_SizeBoundedSetOnPresentKeepsOthers ==
  /\ [](lru.constructed => Len(lru.cache) <= lru.capacity)
  /\ [][ (IsLruCall("set") /\ LruLast(lru').key \in CacheKeys(lru.cache))
         => /\ Len(lru'.cache) = Len(lru.cache)
            /\ Others(lru'.cache, LruLast(lru').key)
                 = Others(lru.cache, LruLast(lru').key)
            /\ lru'.cache[Len(lru'.cache)]
                 = [key |-> LruLast(lru').key, value |-> LruLast(lru').value]
       ]_vars

\* a full cache of capacity 2 holding A then B, and A set again with another
\* value: B stays, A is last and carries the new value
C33_Witness ==
  /\ lru.capacity = 2
  /\ LruLast(lru).op = "set" /\ LruLast(lru).key = "A"
  /\ LruLast(lru).present /\ LruLast(lru).full
  /\ LruLast(lru).value = LruValueB
  /\ lru.cache = <<[key |-> "B", value |-> LruValue],
                   [key |-> "A", value |-> LruValueB]>>

\* ---- the cost model (SpecExtract)
\* what visiting one item adds to the cost model
Weight(item) ==
  _applyRuleItem([descriptor |-> NoDescriptor(<<>>), totalCost |-> 0],
                 item).totalCost

IdAtom == Item("Id", <<"i">>)
PseudoClassAtom == Item("PseudoClass", <<"x">>)
ClassAtom == Item("ClassName", <<"b">>)
AttributeAtoms == {Item("Attribute", <<"b">>), AttrOp(<<"c">>)}
\* the atoms the cost model weighs, one of each kind
Atoms ==
  {Item("TagName", <<"a">>), IdAtom, ClassAtom, PseudoClassAtom,
   Item("PseudoElement", <<"e">>)} \cup AttributeAtoms

RECURSIVE SumWeights(_, _)
SumWeights(items, i) ==
  IF i > Len(items) THEN 0 ELSE Weight(items[i]) + SumWeights(items, i + 1)

\* the cost of one top-level rule: the atoms of the rule matching decisions
\* are made against (the last of its chain), and its nesting depth
RuleCost(rule) ==
  SumWeights(Chain(rule)[Len(Chain(rule))], 1)
    + NestingCost * (Len(Chain(rule)) - 1)

RECURSIVE SumRuleCosts(_, _)
SumRuleCosts(rules, i) ==
  IF i > Len(rules) THEN 0
  ELSE RuleCost(rules[i]) + SumRuleCosts(rules, i + 1)

\* C34: an identity atom weighs strictly less than every other atom, a
\* pseudo-class strictly more than every other atom, an attribute more than a
\* class; nesting depth d adds a fixed positive constant times d; and the
\* cost parse reports is the sum of these contributions over the rules of
\* the pattern (with the bonus of a list of several rules).
C34_WeightsOrderedCostIsSum ==
  /\ \A atom \in Atoms \ {IdAtom} : Weight(IdAtom) < Weight(atom)
  /\ \A atom \in Atoms \ {PseudoClassAtom} :
       Weight(atom) < Weight(PseudoClassAtom)
  /\ \A atom \in AttributeAtoms : Weight(atom) > Weight(ClassAtom)
  /\ NestingCost > 0
  /\ ( /\ ExLast(extractor).op = "extract"
       /\ ExLast(extractor).parsed
       /\ ~ExLast(extractor).raised ) =>
       LET rules == CssSelectorParser(Trim(ExLast(extractor).query)).rules
       IN extractor.matchCost =
            SumRuleCosts(rules, 1)
              + (IF Len(rules) > 1 THEN Log2Thousandths(Len(rules) + 1)
                 ELSE 0)

\* a chain of depth 2 whose last rule holds a tag and a pseudo-class:
\* 1.0 + 4.0 + 1.2 * 2
C34_Witness ==
  /\ ExLast(extractor).op = "extract"
  /\ ExLast(extractor).parsed
  /\ Trim(ExLast(extractor).query) = PatDeep
  /\ extractor.matchCost = 7400

\* C35: the cost parse reports depends on the pattern only: whatever parse
\* calls the instance served before, failed ones included, extract's parse of
\* p reports the cost a new instance reports for p.
C35_CostDependsOnPatternOnly ==
  [][ (IsExtract /\ ExLast(extractor').parsed /\ ~ExLast(extractor').raised)
      => extractor'.matchCost = parse(0, ExKey).matchCost
    ]_vars

\* the third parse of one instance, after a parse that failed and another
\* parse
C35_Witness ==
  /\ extractor.parses = 3
  /\ extractor.failures = 1
  /\ ExLast(extractor).op = "extract"
  /\ ExLast(extractor).parsed /\ ~ExLast(extractor).raised
  /\ ExLast(extractor).hitBefore = <<>>
  /\ extractor.matchCost = 1700
  /\ extractor.cache = <<>>

\* ----------------------- SpecProxy: the add and the remove EventStreamProxy
MaxProxyCalls == 3

Proxies == {"add", "remove"}
Elements == {"t1", "t2"}

\* an argument as typeof and instanceof see it
Str(value) == [kind |-> "string", value |-> value]
Fn(value) == [kind |-> "function", value |-> value]
El(value) == [kind |-> "element", value |-> value]
NoArg == [kind |-> "undefined", value |-> NoTarget]
ArgAt(args, i) == IF i <= Len(args) THEN args[i] ELSE NoArg

ArgsEmpty == <<>>
ArgsShort == <<Str("click"), Fn("f1")>>
ArgsFull(target) == <<target, Str("click"), Fn("f1")>>
ArgsTargetOnly(target) == <<target>>
ProxyArgs ==
  {ArgsEmpty, ArgsShort, ArgsFull(Str("")), ArgsTargetOnly(El("t1"))}
    \cup {ArgsFull(El(t)) : t \in Elements}

_isShortSignature(args) ==
  ArgAt(args, 1).kind = "string" /\ ArgAt(args, 2).kind = "function"

_isValidTarget(value) == value.kind \in {"string", "element"}

_isFullSignature(args) ==
  /\ _isValidTarget(ArgAt(args, 1))
  /\ ArgAt(args, 2).kind = "string"
  /\ ArgAt(args, 3).kind = "function"

\* !value for a target, a type or a listener: undefined and "" are falsy
Falsy(value) == value \in {NoTarget, ""}

NoError == "none"

\* EventArgsParser.parseArgs(args, fallbackTarget): [raised, target, type,
\* listener]; raised names what is missing, or is NoError
parseArgsNoFallback(args, fallbackTarget) ==
  LET short == _isShortSignature(args)
      full == ~short /\ _isFullSignature(args)
      target == IF full THEN args[1].value ELSE NoTarget
  IN [raised |-> IF Falsy(target) THEN "target" ELSE NoError,
      target |-> target,
      type |-> IF short THEN args[1].value
               ELSE IF full THEN args[2].value ELSE NoTarget,
      listener |-> IF short THEN args[2].value
                   ELSE IF full THEN args[3].value ELSE NoTarget]

parseArgs(args, fallbackTarget) ==
  LET short == _isShortSignature(args)
      full == ~short /\ _isFullSignature(args)
      given == IF full THEN args[1].value ELSE NoTarget
      target == IF given = NoTarget THEN fallbackTarget ELSE given
  IN [raised |-> IF Falsy(target) THEN "target" ELSE NoError,
      target |-> target,
      type |-> IF short THEN args[1].value
               ELSE IF full THEN args[2].value ELSE NoTarget,
      listener |-> IF short THEN args[2].value
                   ELSE IF full THEN args[3].value ELSE NoTarget]

\* AddEventArgsParser.validate(config)
validate(config) ==
  IF Falsy(config.type) THEN "type"
  ELSE IF Falsy(config.listener) THEN "listener" ELSE NoError

\* this._parser.parse(args, fallbackTarget) of the proxy p
parserParse(p, args, fallbackTarget) ==
  LET config == parseArgs(args, fallbackTarget)
  IN IF p = "add" /\ config.raised = NoError
     THEN [config EXCEPT !.raised = validate(config)]
     ELSE config

\* _resolve(delegate, ...args): the config handed to _handle, unless parse
\* raised
_resolve(px, p, delegate, args) ==
  LET config == parserParse(p, args, px.bindedTarget)
  IN [op |-> "call", proxy |-> p, args |-> args, delegate |-> delegate,
      raised |-> config.raised,
      target |-> IF config.raised = NoError THEN config.target ELSE NoTarget]

InitProxy ==
  /\ queries = [k \in Kinds |-> NullSlot]
  /\ ts = [l \in Listeners |-> Undefined]
  /\ now = 0
  /\ history = <<>>
  /\ groupsIn = <<>>
  /\ merged = <<>>
  /\ classifier = ClassifierIdle
  /\ registry = RegistryIdle
  /\ lru = LruIdle
  /\ extractor = ExtractorIdle
  /\ proxy = ProxyIdle
  /\ relay = RelayIdle

ProxyFrame ==
  UNCHANGED <<queries, ts, now, history, groupsIn, merged, classifier,
              registry, lru, extractor, relay>>

\* proxy.bind(target)
bind(p, target) ==
  /\ Len(proxy.log) < MaxProxyCalls
  /\ proxy' = [bindedTarget |-> target,
               log |-> Append(proxy.log,
                         [op |-> "bind", proxy |-> p, args |-> <<El(target)>>,
                          delegate |-> FALSE, raised |-> NoError,
                          target |-> target])]
  /\ ProxyFrame

\* proxy(...args): the apply trap
apply(p, args) ==
  /\ Len(proxy.log) < MaxProxyCalls
  /\ proxy' = [proxy EXCEPT !.log = Append(@, _resolve(proxy, p, TRUE, args))]
  /\ ProxyFrame

\* proxy.self(...args)
self(p, args) ==
  /\ Len(proxy.log) < MaxProxyCalls
  /\ proxy' = [proxy EXCEPT !.log = Append(@, _resolve(proxy, p, FALSE, args))]
  /\ ProxyFrame

NextProxy ==
  \/ \E p \in Proxies, target \in Elements : bind(p, target)
  \/ \E p \in Proxies, args \in ProxyArgs : apply(p, args)
  \/ \E p \in Proxies, args \in ProxyArgs : self(p, args)

SpecProxy == InitProxy /\ [][NextProxy]_vars

\* ---- claims on the proxies
\* the call passes no explicit target: the short signature, or no argument
NoExplicitTarget(args) == args \in {ArgsEmpty, ArgsShort}

\* the binds made before the i-th call, on whatever proxy
BindsBefore(i) == {j \in 1..(i - 1) : proxy.log[j].op = "bind"}
LastBindBefore(i) ==
  CHOOSE j \in BindsBefore(i) : \A k \in BindsBefore(i) : k <= j

\* C36: the bound target is shared by the proxies: a call without explicit
\* target, on any proxy, fails for lack of a target when no bind was made
\* before it on any proxy, and otherwise never fails for lack of a target and
\* hands its handler the target of the latest bind, whichever proxy that bind
\* was made on.
C36_BoundTargetIsShared ==
  \A i \in 1..Len(proxy.log) :
    (proxy.log[i].op = "call" /\ NoExplicitTarget(proxy.log[i].args)) =>
      IF BindsBefore(i) = {}
      THEN proxy.log[i].raised = "target"
      ELSE /\ proxy.log[i].raised # "target"
           /\ proxy.log[i].raised = NoError =>
                proxy.log[i].target = proxy.log[LastBindBefore(i)].target

\* bind(t1) on the add proxy, bind(t2) on the add proxy again, then a call on
\* the remove proxy without arguments: it is handled with t2
C36_Witness ==
  /\ Len(proxy.log) = 3
  /\ proxy.log[1].op = "bind" /\ proxy.log[1].proxy = "add"
  /\ proxy.log[1].target = "t1"
  /\ proxy.log[2].op = "bind" /\ proxy.log[2].proxy = "add"
  /\ proxy.log[2].target = "t2"
  /\ proxy.log[3].op = "call" /\ proxy.log[3].proxy = "remove"
  /\ proxy.log[3].args = ArgsEmpty
  /\ proxy.log[3].raised = NoError
  /\ proxy.log[3].target = "t2"

\* ----------------------- SpecRelay: RelayId of index.ts on one element
MaxRelayCalls == 3

\* the element's __relayEventId: index.ts never writes it, so an element
\* carries one only if other code put it there
RelayElements ==
  {RelayIdle,
   [RelayIdle EXCEPT !.hasProperty = TRUE, !.relayEventId = RelayIdN1]}

\* RelayId.has(element): RelayId.PROPERTY in element
relayHas(r) == r.hasProperty

\* RelayId.getId(element)
getId(r, draw) == IF relayHas(r) THEN r.relayEventId ELSE getRandomId(draw)

\* RelayId.ensureAttribute(element, eventType): [attrs, result]
ensureAttributeCall(r, eventType, draw) ==
  LET id == getId(r, draw)
      attr == MarkerAttr(eventType, id)
  IN [attrs |-> IF attr \in r.attrs THEN r.attrs ELSE r.attrs \cup {attr},
      result |-> attr]

InitRelay ==
  /\ queries = [k \in Kinds |-> NullSlot]
  /\ ts = [l \in Listeners |-> Undefined]
  /\ now = 0
  /\ history = <<>>
  /\ groupsIn = <<>>
  /\ merged = <<>>
  /\ classifier = ClassifierIdle
  /\ registry = RegistryIdle
  /\ lru = LruIdle
  /\ extractor = ExtractorIdle
  /\ proxy = ProxyIdle
  /\ relay \in RelayElements

RelayFrame ==
  UNCHANGED <<queries, ts, now, history, groupsIn, merged, classifier,
              registry, lru, extractor, proxy>>

ensureAttribute(eventType, draw) ==
  /\ Len(relay.log) < MaxRelayCalls
  /\ LET call == ensureAttributeCall(relay, eventType, draw)
     IN relay' = [relay EXCEPT
          !.attrs = call.attrs,
          !.log = Append(@, [eventType |-> eventType,
                             result |-> call.result])]
  /\ RelayFrame

NextRelay ==
  \E eventType \in EventTypes, draw \in RandomDraws :
    ensureAttribute(eventType, draw)

SpecRelay == InitRelay /\ [][NextRelay]_vars

\* ---- claims on RelayId
\* the marker attributes of an event type the element carries
MarkersOf(r, eventType) ==
  {attr \in r.attrs :
     /\ Len(attr) >= Len(MarkerAttr(eventType, <<>>))
     /\ SubSeq(attr, 1, Len(MarkerAttr(eventType, <<>>)))
          = MarkerAttr(eventType, <<>>)}

\* C37: two calls of ensureAttribute with the element and one event type
\* return the same attribute name and leave exactly one marker attribute of
\* that event type on the element.
C37_EnsureAttributeIdempotent ==
  \A i, j \in 1..Len(relay.log) :
    (i < j /\ relay.log[i].eventType = relay.log[j].eventType) =>
      /\ relay.log[i].result = relay.log[j].result
      /\ Cardinality(MarkersOf(relay, relay.log[i].eventType)) = 1

\* the same, for an element that carries a __relayEventId
C37_IdempotentWithProperty ==
  relayHas(relay) => C37_EnsureAttributeIdempotent

====
